---------------------------- MODULE Spec2Model ----------------------------
(***************************************************************************)
(* A model of azerbaijaniretromusics.py: three SPARQL queries are sent to  *)
(* the Wikidata endpoint one after another, each response is flattened by  *)
(* WikiDataQueryResults and loaded into a DataFrame, and the albums table  *)
(* is then aggregated and handed to five plotting calls.                   *)
(*                                                                         *)
(* Python strings are modelled as tuples of one-character strings, so that *)
(* the date parser can look at their characters.  A DataFrame cell is a    *)
(* record [kind, s, n, t]; the float NaN and the datetime NaT are cells of *)
(* their own kind, distinct from every string, the empty string included.  *)
(***************************************************************************)
EXTENDS Integers, Sequences, FiniteSets, TLC

VARIABLES
    endpoint,               \* what the Wikidata endpoint answers to each query
    pc,                     \* the statement of the script that runs next
    error,                  \* the uncaught exception that ended the run
    sent,                   \* round-trips made so far, per query
    query_results,          \* the local of execute_query (line 64), last call
    singers_df,
    songs_df,
    albums_df,
    stdout,                 \* what print() wrote
    release_years,
    performer_album_counts,
    album_counts_by_year,
    charts                  \* the data handed to each plotting call, in order

vars == <<endpoint, pc, error, sent, query_results, singers_df, songs_df,
          albums_df, stdout, release_years, performer_album_counts,
          album_counts_by_year, charts>>

-----------------------------------------------------------------------------
(* Bounds of the model.                                                    *)

\* Longest list of bindings drawn freely from the row universes.
MaxRows == 3

-----------------------------------------------------------------------------
(* Program constants.                                                      *)

\* performer_album_counts.head(10)
TopN == 10

query_singers == "singers"
query_songs == "songs"
query_albums == "albums"
Queries == {query_singers, query_songs, query_albums}

-----------------------------------------------------------------------------
(* Cells of a DataFrame.                                                   *)

Str(cs) == [kind |-> "str", s |-> cs, n |-> 0, t |-> 0]
NaN == [kind |-> "NaN", s |-> <<>>, n |-> 0, t |-> 0]
NaT == [kind |-> "NaT", s |-> <<>>, n |-> 0, t |-> 0]
\* A timestamp: n is the calendar date as yyyymmdd, t the second of the day.
Timestamp(date, secs) == [kind |-> "Timestamp", s |-> <<>>, n |-> date, t |-> secs]
Float(x) == [kind |-> "float", s |-> <<>>, n |-> x, t |-> 0]

isna(c) == c.kind \in {"NaN", "NaT"}

-----------------------------------------------------------------------------
(* WikiDataQueryResults.                                                   *)

\* The flattening taking the binding's 'type' in place of its 'value'.
transform2dictsType(results) ==
    [i \in 1..Len(results) |->
        [key \in DOMAIN results[i] |-> results[i][key]["type"]]]

\* The flattening prepending each row (new_results.insert(0, ...)).
transform2dictsReversed(results) ==
    [i \in 1..Len(results) |->
        [key \in DOMAIN results[Len(results) + 1 - i] |->
            results[Len(results) + 1 - i][key]["value"]]]

\* for result in results: for key in result:
\*     new_result[key] = result[key]['value']
transform2dicts(results) ==
    [i \in 1..Len(results) |->
        [key \in DOMAIN results[i] |-> results[i][key]["value"]]]

\* The subscript result[key]['value'] raises KeyError when a binding has no
\* 'value'.
transform2dictsRaises(results) ==
    \E i \in 1..Len(results) : \E key \in DOMAIN results[i] :
        "value" \notin DOMAIN results[i][key]

\* self.sparql.query().convert()['results']['bindings'], then the
\* flattening: the exception raised, or "none".
loadException(resp) ==
    IF resp.status = "transport" THEN "URLError"
    ELSE IF resp.status = "http" THEN "EndPointInternalError"
    ELSE IF "results" \notin DOMAIN resp.body THEN "KeyError"
    ELSE IF "bindings" \notin DOMAIN resp.body["results"] THEN "KeyError"
    ELSE IF transform2dictsRaises(resp.body["results"]["bindings"]) THEN "KeyError"
    ELSE "none"

load(resp) == transform2dicts(resp.body["results"]["bindings"])

\* A table that fills a missing value with the empty string.
DataFrameFillEmpty(rows) ==
    LET columns == UNION {DOMAIN rows[i] : i \in 1..Len(rows)}
    IN  [columns |-> columns,
         data |-> [i \in 1..Len(rows) |->
                    [c \in columns |->
                        Str(IF c \in DOMAIN rows[i] THEN rows[i][c] ELSE <<>>)]]]

\* pd.DataFrame(list of dicts): the columns are the keys met in any row, a
\* row without a key holds NaN there.  (The order of the columns is not
\* modelled.)
DataFrame(rows) ==
    LET columns == UNION {DOMAIN rows[i] : i \in 1..Len(rows)}
    IN  [columns |-> columns,
         data |-> [i \in 1..Len(rows) |->
                    [c \in columns |->
                        IF c \in DOMAIN rows[i] THEN Str(rows[i][c]) ELSE NaN]]]

\* The name a script variable has before its assignment ran.
Unbound == [columns |-> {}, data |-> <<>>]


-----------------------------------------------------------------------------
(* The endpoint's answers.  A binding maps each bound variable to a JSON   *)
(* object with a 'value' and metadata ('type', 'datatype', 'xml:lang').    *)

Uri == <<"u", "r", "i">>
Literal == <<"l", "i", "t">>
En == <<"e", "n">>
XsdDateTime == <<"x", "s", "d", ":", "d", "T">>

uri(cs) == [type |-> Uri, value |-> cs]
label(cs) == [type |-> Literal, value |-> cs, lang |-> En]
typed(cs) == [type |-> Literal, value |-> cs, datatype |-> XsdDateTime]

Q(d) == <<"Q", d>>
Letters == <<"A", "B", "C", "D", "E", "F", "G", "H", "I", "J", "K", "L">>
Name(i) == <<Letters[i]>>

\* xsd:dateTime literals as Wikidata writes them, and a string that is no date.
Date1965a == <<"1","9","6","5","-","0","1","-","0","1","T","0","0",":","0","0",":","0","0","Z">>
Date1965b == <<"1","9","6","5","-","1","1","-","3","0","T","0","0",":","0","0",":","0","0","Z">>
Date1970 == <<"1","9","7","0","-","0","6","-","1","5","T","0","0",":","0","0",":","0","0","Z">>
DateUnknown == <<"u","n","k","n","o","w","n">>

\* Rows the singers query may be answered with: a full row, a row without
\* birthDate, a row with an empty label, a row with no variable bound.
SingerRows ==
    { [singer |-> uri(Q("1")), singerLabel |-> label(Name(1)), birthDate |-> typed(Date1965a)],
      [singer |-> uri(Q("2")), singerLabel |-> label(Name(2))],
      [singer |-> uri(Q("3")), singerLabel |-> label(<<>>), birthDate |-> typed(Date1970)],
      <<>> }

SongRows ==
    { [song |-> uri(Q("4")), songLabel |-> label(Name(3)), performerLabel |-> label(Name(1))],
      [song |-> uri(Q("5")), performerLabel |-> label(Name(2))],
      [song |-> uri(Q("6")), songLabel |-> label(<<>>)] }

AlbumRow(d, perf, date) ==
    [album |-> uri(Q(d)), albumLabel |-> label(<<"T", d>>),
     performerLabel |-> label(perf), publicationDate |-> typed(date)]

\* Rows the albums query may be answered with: two performers, two dates of
\* one year, a date of another year, a date that does not parse, and rows
\* with the performer or the date unbound.
AlbumRows ==
    { AlbumRow("1", Name(1), Date1965a), AlbumRow("2", Name(1), Date1970),
      AlbumRow("3", Name(2), Date1965b), AlbumRow("4", Name(2), DateUnknown),
      AlbumRow("5", Name(1), DateUnknown), AlbumRow("6", Name(2), Date1970),
      [album |-> uri(Q("7")), albumLabel |-> label(<<"T", "7">>),
       performerLabel |-> label(Name(1))],
      [album |-> uri(Q("8")), albumLabel |-> label(<<"T", "8">>),
       publicationDate |-> typed(Date1965a)] }

RECURSIVE SeqsUpTo(_, _)
SeqsUpTo(S, n) ==
    IF n = 0 THEN {<<>>}
    ELSE LET shorter == SeqsUpTo(S, n - 1)
         IN  shorter \cup {Append(q, x) : q \in shorter, x \in S}

\* A table of many performers: counts[i] albums of the i-th performer, the
\* performers taking turns, the dates cycling.  The albums query is LIMITed
\* to 20 rows, so the counts sum to at most 20.
DateCycle == <<Date1965a, Date1970, DateUnknown, Date1965b>>
Digits == <<"0", "1", "2", "3", "4", "5", "6", "7", "8", "9">>

RECURSIVE Turns(_, _)
Turns(counts, round) ==
    LET left == {i \in 1..Len(counts) : counts[i] >= round}
        RECURSIVE Ordered(_)
        Ordered(S) == IF S = {} THEN <<>>
                      ELSE LET m == CHOOSE x \in S : \A y \in S : x <= y
                           IN  <<m>> \o Ordered(S \ {m})
    IN  IF left = {} THEN <<>> ELSE Ordered(left) \o Turns(counts, round + 1)

ManyPerformers(counts) ==
    LET who == Turns(counts, 1)
    IN  [j \in 1..Len(who) |->
            AlbumRow(Digits[(j % 10) + 1], Name(who[j]), DateCycle[(j % 4) + 1])]

\* Eleven performers in 20 rows, and ten performers in 20 rows.
AlbumProfiles == { <<1, 2, 4, 1, 2, 3, 1, 2, 1, 2, 1>>,
                   <<1, 3, 2, 4, 1, 2, 3, 1, 2, 1>> }

Ok(bindings) == [status |-> "ok", body |-> [results |-> [bindings |-> bindings]]]

\* A round-trip that fails: no connection, an error status of the endpoint,
\* a JSON document without 'results', one without 'bindings', and a binding
\* without 'value'.
Failures(q) ==
    { [status |-> "transport", body |-> <<>>],
      [status |-> "http", body |-> <<>>],
      [status |-> "ok", body |-> [head |-> <<>>]],
      [status |-> "ok", body |-> [results |-> [head |-> <<>>]]],
      Ok(<<[item |-> [type |-> Uri]]>>) }

Responses(q) ==
    Failures(q) \cup
    {Ok(b) : b \in SeqsUpTo(CASE q = query_singers -> SingerRows
                              [] q = query_songs -> SongRows
                              [] OTHER -> AlbumRows, MaxRows)}
    \cup (IF q = query_albums THEN {Ok(ManyPerformers(c)) : c \in AlbumProfiles}
          ELSE {})

\* The usual answer to a query, given while another query's answer varies.
Baseline(q) ==
    Ok(CASE q = query_singers ->
              <<[singer |-> uri(Q("1")), singerLabel |-> label(Name(1)),
                 birthDate |-> typed(Date1965a)]>>
         [] q = query_songs ->
              <<[song |-> uri(Q("4")), songLabel |-> label(Name(3)),
                 performerLabel |-> label(Name(1))]>>
         [] OTHER -> <<AlbumRow("1", Name(1), Date1965a)>>)

\* Each query is served by a WikiDataQueryResults of its own and shares
\* nothing with the others, so one answer at a time varies over Responses.
Worlds ==
    UNION { { [p \in Queries |-> IF p = q THEN r ELSE Baseline(p)] :
              r \in Responses(q) } : q \in Queries }


-----------------------------------------------------------------------------
(* pandas, as far as the script uses it.  A Series is the sequence of its  *)
(* values in row order; a Series of counts is a sequence of [key, count].  *)

IsDigit(ch) == ch \in {"0", "1", "2", "3", "4", "5", "6", "7", "8", "9"}

Digit(ch) ==
    CASE ch = "0" -> 0 [] ch = "1" -> 1 [] ch = "2" -> 2 [] ch = "3" -> 3
      [] ch = "4" -> 4 [] ch = "5" -> 5 [] ch = "6" -> 6 [] ch = "7" -> 7
      [] ch = "8" -> 8 [] ch = "9" -> 9

\* The number written by the digits cs[i..j].
RECURSIVE Num(_, _, _)
Num(cs, i, j) == IF j < i THEN 0 ELSE 10 * Num(cs, i, j - 1) + Digit(cs[j])

\* yyyy-mm-ddThh:mm:ssZ
IsoShape(cs) ==
    /\ Len(cs) = 20
    /\ cs[5] = "-" /\ cs[8] = "-" /\ cs[11] = "T"
    /\ cs[14] = ":" /\ cs[17] = ":" /\ cs[20] = "Z"
    /\ \A i \in {1, 2, 3, 4, 6, 7, 9, 10, 12, 13, 15, 16, 18, 19} : IsDigit(cs[i])

IsLeap(y) == (y % 4 = 0 /\ y % 100 # 0) \/ y % 400 = 0

DaysIn(y, m) ==
    IF m = 2 THEN (IF IsLeap(y) THEN 29 ELSE 28)
    ELSE IF m \in {4, 6, 9, 11} THEN 30 ELSE 31

\* datetime64[ns] holds 1677-09-21 00:12:44 to 2262-04-11 23:47:16.
InNsBounds(date, secs) ==
    /\ date > 16770921 \/ (date = 16770921 /\ secs >= 764)
    /\ date < 22620411 \/ (date = 22620411 /\ secs <= 85636)

\* pd.to_datetime(..., errors='coerce') of one value: the timestamp a
\* dateTime literal writes, NaT for a missing value and for anything that
\* does not parse.  The strings of the answers are dateTime literals of the
\* one form the endpoint writes or no dates at all, so each value parses the
\* same way whatever the other values of the column are.
to_datetime(c) ==
    IF c.kind = "Timestamp" THEN c
    ELSE IF c.kind # "str" \/ ~IsoShape(c.s) THEN NaT
    ELSE LET y == Num(c.s, 1, 4)
             m == Num(c.s, 6, 7)
             d == Num(c.s, 9, 10)
             hh == Num(c.s, 12, 13)
             mm == Num(c.s, 15, 16)
             ss == Num(c.s, 18, 19)
             date == y * 10000 + m * 100 + d
             secs == hh * 3600 + mm * 60 + ss
         IN  IF /\ m \in 1..12 /\ d \in 1..DaysIn(y, m)
                /\ hh < 24 /\ mm < 60 /\ ss < 60
                /\ InNsBounds(date, secs)
             THEN Timestamp(date, secs)
             ELSE NaT

\* Series.dt.year of one value: a float column, NaN where the date is NaT.
dt_year(c) == IF c.kind = "Timestamp" THEN Float(c.n \div 10000) ELSE NaN

\* df[col]
getitem(df, col) == [i \in 1..Len(df.data) |-> df.data[i][col]]

\* An assignment that leaves a frame of the assigned column alone.
setitemOnly(df, col, series) ==
    [columns |-> {col},
     data |-> [i \in 1..Len(df.data) |-> [c \in {col} |-> series[i]]]]

\* df[col] = series
setitem(df, col, series) ==
    LET columns == df.columns \cup {col}
    IN  [columns |-> columns,
         data |-> [i \in 1..Len(df.data) |->
                    [c \in columns |->
                        IF c = col THEN series[i] ELSE df.data[i][c]]]]

\* The subsequence of s at the positions in keep, in order.
RECURSIVE Select(_, _, _)
Select(s, keep, i) ==
    IF i > Len(s) THEN <<>>
    ELSE (IF i \in keep THEN <<s[i]>> ELSE <<>>) \o Select(s, keep, i + 1)

\* A dropna that drops nothing.
dropnaNothing(series) == series

\* series.dropna()
dropna(series) == Select(series, {i \in 1..Len(series) : ~isna(series[i])}, 1)

\* .astype(int) of a float Series without NaN
astype_int(series) == [i \in 1..Len(series) |-> series[i].n]

\* The distinct values of keys in the order in which each is first met,
\* each with the number of times it occurs (the hash table value_counts and
\* groupby build).
hash_counts(keys) ==
    LET first == {i \in 1..Len(keys) : \A j \in 1..(i - 1) : keys[j] # keys[i]}
        uniq == Select(keys, first, 1)
    IN  [u \in 1..Len(uniq) |->
            [key |-> uniq[u],
             count |-> Cardinality({i \in 1..Len(keys) : keys[i] = uniq[u]})]]

\* Series.sort_values(ascending=False) with the default kind='quicksort',
\* which is not a stable sort: every arrangement of the entries in which
\* the counts never increase.
RECURSIVE Arrangements(_, _)
Arrangements(series, left) ==
    IF left = {} THEN {<<>>}
    ELSE LET top == {i \in left : \A j \in left : series[j].count <= series[i].count}
         IN  UNION { { <<series[i]>> \o rest : rest \in Arrangements(series, left \ {i}) }
                     : i \in top }

sort_values_descending(series) == Arrangements(series, 1..Len(series))

\* Series.value_counts(): NaN is dropped, the counts are sorted descending.
value_counts(series) == sort_values_descending(hash_counts(series))

\* A sort_index that leaves the order as it is.
sort_indexNothing(series) == series

\* Series.sort_index() over integer keys that are all different.
RECURSIVE SortedByKey(_, _)
SortedByKey(series, left) ==
    IF left = {} THEN <<>>
    ELSE LET i == CHOOSE x \in left : \A y \in left : series[x].key <= series[y].key
         IN  <<series[i]>> \o SortedByKey(series, left \ {i})

sort_index(series) == SortedByKey(series, 1..Len(series))

\* head(n - 1)
headOneLess(series, n) ==
    SubSeq(series, 1, IF Len(series) < n - 1 THEN Len(series) ELSE n - 1)

\* series.head(n)
head(series, n) == SubSeq(series, 1, IF Len(series) < n THEN Len(series) ELSE n)


-----------------------------------------------------------------------------
(* The script.  A plotting call is modelled by the data it is given, kept  *)
(* in charts; what matplotlib draws from it is not modelled.               *)

Init ==
    /\ endpoint \in Worlds
    /\ pc = "fetch_singers"
    /\ error = "none"
    /\ sent = [q \in Queries |-> 0]
    /\ query_results = <<>>
    /\ singers_df = Unbound
    /\ songs_df = Unbound
    /\ albums_df = Unbound
    /\ stdout = <<>>
    /\ release_years = <<>>
    /\ performer_album_counts = <<>>
    /\ album_counts_by_year = <<>>
    /\ charts = <<>>

\* An uncaught exception ends the script at the statement that raised it.
Raise(exception) ==
    /\ error' = exception
    /\ pc' = pc

\* The value execute_query returns for the answer resp.
execute_query(resp) == DataFrame(load(resp))

\* A fetch that tries a second round-trip when the first fails.
get_wikidata_results_retry(q, next) ==
    IF loadException(endpoint[q]) # "none"
    THEN /\ sent' = [sent EXCEPT ![q] = @ + 2]
         /\ Raise(loadException(endpoint[q]))
         /\ UNCHANGED query_results
    ELSE /\ sent' = [sent EXCEPT ![q] = @ + 1]
         /\ query_results' = load(endpoint[q])
         /\ pc' = next
         /\ UNCHANGED error

\* get_wikidata_results(query): one WikiDataQueryResults, one round-trip,
\* the DataFrame of the flattened bindings or the exception of _load.
get_wikidata_results(q, next) ==
    /\ sent' = [sent EXCEPT ![q] = @ + 1]
    /\ IF loadException(endpoint[q]) # "none"
       THEN /\ Raise(loadException(endpoint[q]))
            /\ UNCHANGED query_results
       ELSE /\ query_results' = load(endpoint[q])
            /\ pc' = next
            /\ UNCHANGED error

\* singers_df = get_wikidata_results(query_singers)
FetchSingers ==
    /\ error = "none"
    /\ pc = "fetch_singers"
    /\ get_wikidata_results(query_singers, "print_singers")
    /\ singers_df' = IF loadException(endpoint[query_singers]) = "none"
                     THEN execute_query(endpoint[query_singers]) ELSE singers_df
    /\ UNCHANGED <<endpoint, songs_df, albums_df, stdout, release_years,
                   performer_album_counts, album_counts_by_year, charts>>

PrintSingers ==
    /\ error = "none"
    /\ pc = "print_singers"
    /\ stdout' = stdout \o <<[what |-> query_singers, table |-> singers_df]>>
    /\ pc' = "fetch_songs"
    /\ UNCHANGED <<endpoint, error, sent, query_results, singers_df, songs_df,
                   albums_df, release_years, performer_album_counts,
                   album_counts_by_year, charts>>

\* songs_df = get_wikidata_results(query_songs)
FetchSongs ==
    /\ error = "none"
    /\ pc = "fetch_songs"
    /\ get_wikidata_results(query_songs, "print_songs")
    /\ songs_df' = IF loadException(endpoint[query_songs]) = "none"
                   THEN execute_query(endpoint[query_songs]) ELSE songs_df
    /\ UNCHANGED <<endpoint, singers_df, albums_df, stdout, release_years,
                   performer_album_counts, album_counts_by_year, charts>>

PrintSongs ==
    /\ error = "none"
    /\ pc = "print_songs"
    /\ stdout' = stdout \o <<[what |-> query_songs, table |-> songs_df]>>
    /\ pc' = "fetch_albums"
    /\ UNCHANGED <<endpoint, error, sent, query_results, singers_df, songs_df,
                   albums_df, release_years, performer_album_counts,
                   album_counts_by_year, charts>>

\* albums_df = get_wikidata_results(query_albums)
FetchAlbums ==
    /\ error = "none"
    /\ pc = "fetch_albums"
    /\ get_wikidata_results(query_albums, "print_albums")
    /\ albums_df' = IF loadException(endpoint[query_albums]) = "none"
                    THEN execute_query(endpoint[query_albums]) ELSE albums_df
    /\ UNCHANGED <<endpoint, singers_df, songs_df, stdout, release_years,
                   performer_album_counts, album_counts_by_year, charts>>

PrintAlbums ==
    /\ error = "none"
    /\ pc = "print_albums"
    /\ stdout' = stdout \o <<[what |-> query_albums, table |-> albums_df]>>
    /\ pc' = "parse_dates"
    /\ UNCHANGED <<endpoint, error, sent, query_results, singers_df, songs_df,
                   albums_df, release_years, performer_album_counts,
                   album_counts_by_year, charts>>

\* albums_df['publicationDate'] =
\*     pd.to_datetime(albums_df['publicationDate'], errors='coerce')
ParseDates ==
    /\ error = "none"
    /\ pc = "parse_dates"
    /\ IF "publicationDate" \notin albums_df.columns
       THEN /\ Raise("KeyError")
            /\ UNCHANGED albums_df
       ELSE /\ albums_df' =
                 LET column == getitem(albums_df, "publicationDate")
                 IN  setitem(albums_df, "publicationDate",
                             [i \in 1..Len(column) |-> to_datetime(column[i])])
            /\ pc' = "release_year"
            /\ UNCHANGED error
    /\ UNCHANGED <<endpoint, sent, query_results, singers_df, songs_df, stdout,
                   release_years, performer_album_counts, album_counts_by_year,
                   charts>>

\* albums_df['release_year'] = albums_df['publicationDate'].dt.year
ReleaseYear ==
    /\ error = "none"
    /\ pc = "release_year"
    /\ albums_df' =
          LET column == getitem(albums_df, "publicationDate")
          IN  setitem(albums_df, "release_year",
                      [i \in 1..Len(column) |-> dt_year(column[i])])
    /\ pc' = "release_years"
    /\ UNCHANGED <<endpoint, error, sent, query_results, singers_df, songs_df,
                   stdout, release_years, performer_album_counts,
                   album_counts_by_year, charts>>

\* release_years = albums_df['release_year'].dropna().astype(int)
ReleaseYears ==
    /\ error = "none"
    /\ pc = "release_years"
    /\ release_years' = astype_int(dropna(getitem(albums_df, "release_year")))
    /\ pc' = "chart1"
    /\ UNCHANGED <<endpoint, error, sent, query_results, singers_df, songs_df,
                   albums_df, stdout, performer_album_counts,
                   album_counts_by_year, charts>>

\* release_years.value_counts().sort_index().plot(kind='bar'): sort_index
\* orders the years whatever order value_counts left them in.
Chart1 ==
    /\ error = "none"
    /\ pc = "chart1"
    /\ \E counted \in value_counts(release_years) :
          charts' = Append(charts, [kind |-> "bar", by |-> "year",
                                    data |-> sort_index(counted)])
    /\ pc' = "performer_counts"
    /\ UNCHANGED <<endpoint, error, sent, query_results, singers_df, songs_df,
                   albums_df, stdout, release_years, performer_album_counts,
                   album_counts_by_year>>

\* The strings of a Series of str cells.
strings(series) == [i \in 1..Len(series) |-> series[i].s]

\* performer_album_counts = albums_df['performerLabel'].value_counts()
PerformerAlbumCounts ==
    /\ error = "none"
    /\ pc = "performer_counts"
    /\ IF "performerLabel" \notin albums_df.columns
       THEN /\ Raise("KeyError")
            /\ UNCHANGED performer_album_counts
       ELSE /\ performer_album_counts' \in
                 value_counts(strings(dropna(getitem(albums_df, "performerLabel"))))
            /\ pc' = "chart2"
            /\ UNCHANGED error
    /\ UNCHANGED <<endpoint, sent, query_results, singers_df, songs_df,
                   albums_df, stdout, release_years, album_counts_by_year,
                   charts>>

\* performer_album_counts.head(10).plot(kind='bar')
Chart2 ==
    /\ error = "none"
    /\ pc = "chart2"
    /\ charts' = Append(charts, [kind |-> "bar", by |-> "performer",
                                 data |-> head(performer_album_counts, TopN)])
    /\ pc' = "chart3"
    /\ UNCHANGED <<endpoint, error, sent, query_results, singers_df, songs_df,
                   albums_df, stdout, release_years, performer_album_counts,
                   album_counts_by_year>>

\* performer_album_counts.head(10).plot(kind='pie')
Chart3 ==
    /\ error = "none"
    /\ pc = "chart3"
    /\ charts' = Append(charts, [kind |-> "pie", by |-> "performer",
                                 data |-> head(performer_album_counts, TopN)])
    /\ pc' = "counts_by_year"
    /\ UNCHANGED <<endpoint, error, sent, query_results, singers_df, songs_df,
                   albums_df, stdout, release_years, performer_album_counts,
                   album_counts_by_year>>

\* albums_df.groupby('release_year').size(): the groups of the rows whose
\* release_year is not NaN, in ascending order of the year.
groupby_size(df, col) ==
    sort_index(hash_counts(astype_int(dropna(getitem(df, col)))))

\* album_counts_by_year = albums_df.groupby('release_year').size()
\* album_counts_by_year.plot(kind='line')
Chart4 ==
    /\ error = "none"
    /\ pc = "counts_by_year"
    /\ album_counts_by_year' = groupby_size(albums_df, "release_year")
    /\ charts' = Append(charts, [kind |-> "line", by |-> "year",
                                 data |-> groupby_size(albums_df, "release_year")])
    /\ pc' = "chart5"
    /\ UNCHANGED <<endpoint, error, sent, query_results, singers_df, songs_df,
                   albums_df, stdout, release_years, performer_album_counts>>

\* A scatter plot of the rows of the first TopN performers only.
scatterplotTopN(df, x, y) ==
    LET top == {head(performer_album_counts, TopN)[k].key :
                    k \in 1..Len(head(performer_album_counts, TopN))}
        drawn == {i \in 1..Len(df.data) :
                    /\ ~isna(df.data[i][x]) /\ ~isna(df.data[i][y])
                    /\ df.data[i][x].s \in top}
    IN  Select([i \in 1..Len(df.data) |->
                   [row |-> i, x |-> df.data[i][x].s, y |-> df.data[i][y].n]],
               drawn, 1)

\* The points sns.scatterplot(data=df, x=..., y=...) draws: one per row of
\* df that has both coordinates.
scatterplot(df, x, y) ==
    LET drawn == {i \in 1..Len(df.data) : ~isna(df.data[i][x]) /\ ~isna(df.data[i][y])}
    IN  Select([i \in 1..Len(df.data) |->
                   [row |-> i, x |-> df.data[i][x].s, y |-> df.data[i][y].n]],
               drawn, 1)

\* sns.scatterplot(data=albums_df, x='performerLabel', y='release_year')
Chart5 ==
    /\ error = "none"
    /\ pc = "chart5"
    /\ charts' = Append(charts, [kind |-> "scatter", by |-> "row",
                                 data |-> scatterplot(albums_df, "performerLabel",
                                                      "release_year")])
    /\ pc' = "done"
    /\ UNCHANGED <<endpoint, error, sent, query_results, singers_df, songs_df,
                   albums_df, stdout, release_years, performer_album_counts,
                   album_counts_by_year>>

Next ==
    \/ FetchSingers \/ PrintSingers
    \/ FetchSongs \/ PrintSongs
    \/ FetchAlbums \/ PrintAlbums
    \/ ParseDates \/ ReleaseYear \/ ReleaseYears
    \/ Chart1
    \/ PerformerAlbumCounts \/ Chart2 \/ Chart3
    \/ Chart4
    \/ Chart5

Spec == Init /\ [][Next]_vars


-----------------------------------------------------------------------------
(* Properties.                                                             *)

FetchOf(q) == CASE q = query_singers -> "fetch_singers"
                [] q = query_songs -> "fetch_songs"
                [] q = query_albums -> "fetch_albums"

PrintOf(q) == CASE q = query_singers -> "print_singers"
                [] q = query_songs -> "print_songs"
                [] q = query_albums -> "print_albums"

TableOf(q) == CASE q = query_singers -> singers_df
                [] q = query_songs -> songs_df
                [] q = query_albums -> albums_df

\* The place of a query in the script.
Rank(q) == CASE q = query_singers -> 1 [] q = query_songs -> 2 [] q = query_albums -> 3

\* The RawBinding rows the endpoint answered query q with.
Bindings(q) == endpoint[q].body["results"]["bindings"]

\* Execute has just returned the table of query q.
Returned(q) == error = "none" /\ pc = PrintOf(q)

\* C1: every FlatRow has exactly the variable keys of its RawBinding row, each
\* key maps to the binding's 'value', and no other field of the binding
\* (type, datatype, language) is what the FlatRow holds.
C1_Flattening ==
    \A q \in Queries : Returned(q) =>
        \A i \in 1..Len(Bindings(q)) :
            /\ i \in DOMAIN query_results
            /\ DOMAIN query_results[i] = DOMAIN Bindings(q)[i]
            /\ \A key \in DOMAIN Bindings(q)[i] :
                  /\ query_results[i][key] = Bindings(q)[i][key]["value"]
                  /\ \A field \in DOMAIN Bindings(q)[i][key] \ {"value"} :
                        query_results[i][key] # Bindings(q)[i][key][field]

\* A row with three variables, each with metadata, has been flattened.
C1_Witness ==
    /\ Returned(query_singers)
    /\ \E i \in 1..Len(query_results) :
          /\ Cardinality(DOMAIN query_results[i]) = 3
          /\ \A key \in DOMAIN query_results[i] :
                Cardinality(DOMAIN Bindings(query_singers)[i][key]) >= 2

\* C2: the columns of the table Execute returns are the union of the
\* variable keys of all rows; a row that lacks a variable has no entry for
\* it in its FlatRow and NaN, not the empty string, in the table.
C2_SparseRows ==
    \A q \in Queries : Returned(q) =>
        /\ TableOf(q).columns =
              UNION {DOMAIN Bindings(q)[i] : i \in 1..Len(Bindings(q))}
        /\ \A i \in 1..Len(Bindings(q)) : \A c \in TableOf(q).columns :
              c \notin DOMAIN Bindings(q)[i] =>
                  /\ c \notin DOMAIN query_results[i]
                  /\ TableOf(q).data[i][c] = NaN
                  /\ TableOf(q).data[i][c] # Str(<<>>)

\* A row lacks a variable that another row of the same answer binds, and a
\* third cell of the table holds the empty string.
C2_Witness ==
    /\ Returned(query_singers)
    /\ \E i, j \in 1..Len(Bindings(query_singers)) :
          /\ "birthDate" \in DOMAIN Bindings(query_singers)[j]
          /\ "birthDate" \notin DOMAIN Bindings(query_singers)[i]
          /\ singers_df.data[j]["singerLabel"] = Str(<<>>)

\* C3: Execute yields one FlatRow and one table row per RawBinding row, the
\* i-th made from the i-th.
C3_RowCount ==
    \A q \in Queries : Returned(q) =>
        /\ Len(query_results) = Len(Bindings(q))
        /\ Len(TableOf(q).data) = Len(Bindings(q))
        /\ \A i \in 1..Len(Bindings(q)) : \A key \in DOMAIN Bindings(q)[i] :
              /\ key \in DOMAIN query_results[i]
              /\ query_results[i][key] = Bindings(q)[i][key]["value"]
              /\ TableOf(q).data[i][key] = Str(Bindings(q)[i][key]["value"])

\* Three rows came back, the first and the last different, one repeated.
C3_Witness ==
    /\ Returned(query_songs)
    /\ Len(songs_df.data) = 3
    /\ Bindings(query_songs)[1] # Bindings(query_songs)[3]
    /\ Bindings(query_songs)[1] = Bindings(query_songs)[2]

\* The round-trip of q cannot give a table: no connection, an error of the
\* endpoint, or an answer without the results/bindings/value shape.
RoundTripFails(q) ==
    \/ endpoint[q].status # "ok"
    \/ "results" \notin DOMAIN endpoint[q].body
    \/ "bindings" \notin DOMAIN endpoint[q].body["results"]
    \/ \E i \in 1..Len(Bindings(q)) : \E key \in DOMAIN Bindings(q)[i] :
          "value" \notin DOMAIN Bindings(q)[i][key]

AlbumsReturned == sent[query_albums] = 1 /\ ~RoundTripFails(query_albums)

AlbumRowsIn == 1..Len(Bindings(query_albums))

\* The year a date literal of the answers writes, 0 for a string that is no
\* date.
LiteralYear(cs) ==
    CASE cs = Date1965a -> 1965 [] cs = Date1965b -> 1965
      [] cs = Date1970 -> 1970 [] OTHER -> 0

\* The year of the i-th albums row, 0 when it has none.
YearOfRow(i) ==
    IF "publicationDate" \in DOMAIN Bindings(query_albums)[i]
    THEN LiteralYear(Bindings(query_albums)[i]["publicationDate"]["value"])
    ELSE 0

HasPerformer(i) == "performerLabel" \in DOMAIN Bindings(query_albums)[i]

PerformerOfRow(i) == Bindings(query_albums)[i]["performerLabel"]["value"]

Performers == {PerformerOfRow(i) : i \in {j \in AlbumRowsIn : HasPerformer(j)}}

RowsOf(p) == {i \in AlbumRowsIn : HasPerformer(i) /\ PerformerOfRow(i) = p}

FirstSeen(p) == CHOOSE i \in RowsOf(p) : \A j \in RowsOf(p) : i <= j

RECURSIVE SumOfCounts(_, _)
SumOfCounts(view, k) == IF k = 0 THEN 0 ELSE view[k].count + SumOfCounts(view, k - 1)

Keys(view) == {view[k].key : k \in 1..Len(view)}

\* view maps each year some row has to the number of rows of that year, holds
\* no other year, and lists the years in strictly ascending order.
IsCountsByYear(view) ==
    /\ \A k \in 1..Len(view) :
          /\ view[k].key # 0
          /\ view[k].count >= 1
          /\ view[k].count = Cardinality({i \in AlbumRowsIn : YearOfRow(i) = view[k].key})
    /\ \A i \in AlbumRowsIn : YearOfRow(i) # 0 => YearOfRow(i) \in Keys(view)
    /\ \A k \in 1..(Len(view) - 1) : view[k].key < view[k + 1].key

\* C5: the counts by year (the data of the first bar chart, and
\* album_counts_by_year with the line chart drawn from it) map each year that
\* some row's publication date parses to to the number of such rows, hold no
\* other year, and are in strictly ascending order of the year.
C5_CountsByYear ==
    /\ Len(charts) >= 1 => IsCountsByYear(charts[1].data)
    /\ Len(charts) >= 4 =>
          /\ IsCountsByYear(album_counts_by_year)
          /\ charts[4].data = album_counts_by_year

\* Dates of 1970, 1965 and 1965, in that order, gave {1965: 2, 1970: 1}.
C5_Witness ==
    /\ Len(charts) >= 4
    /\ Len(Bindings(query_albums)) = 3
    /\ YearOfRow(1) = 1970
    /\ charts[1].data = <<[key |-> 1965, count |-> 2], [key |-> 1970, count |-> 1]>>
    /\ album_counts_by_year = charts[1].data

\* C6: a publication date that does not parse raises nothing, its row counts
\* for no year (the counts by year sum to the number of rows with a date that
\* parses), and the row stays in the albums table, which keeps its number of
\* rows through the date parsing.
C6_UnparseableExcluded ==
    AlbumsReturned =>
        /\ (\E i \in AlbumRowsIn : "publicationDate" \in DOMAIN Bindings(query_albums)[i])
              => (pc \in {"parse_dates", "release_year", "release_years"}
                    => error = "none")
        /\ Len(charts) >= 1 =>
              SumOfCounts(charts[1].data, Len(charts[1].data)) =
                  Cardinality({i \in AlbumRowsIn : YearOfRow(i) # 0})
        /\ Len(albums_df.data) = Len(Bindings(query_albums))
        /\ \A i \in AlbumRowsIn :
              albums_df.data[i]["album"] = Str(Bindings(query_albums)[i]["album"]["value"])

\* The counts by year were made of a table with a date that parses and the
\* date "unknown".
C6_Witness ==
    /\ Len(charts) >= 1
    /\ \E i, j \in AlbumRowsIn :
          /\ YearOfRow(i) # 0
          /\ "publicationDate" \in DOMAIN Bindings(query_albums)[j]
          /\ Bindings(query_albums)[j]["publicationDate"]["value"] = DateUnknown

Min(a, b) == IF a < b THEN a ELSE b

\* view holds Min(TopN, number of performers) different performers, each with
\* the number of its rows.
IsTopView(view) ==
    /\ Len(view) = Min(TopN, Cardinality(Performers))
    /\ \A k \in 1..Len(view) :
          /\ view[k].key \in Performers
          /\ view[k].count = Cardinality(RowsOf(view[k].key))
    /\ \A k, l \in 1..Len(view) : k # l => view[k].key # view[l].key

\* C7 as claimed: the top-10 view holds the performers with the most albums in
\* descending order of the count, performers of equal count in the order in
\* which the table first meets them.
C7_Top10FirstSeen ==
    (AlbumsReturned /\ Len(charts) >= 2) =>
        LET view == charts[2].data
        IN  /\ IsTopView(view)
            /\ \A k, l \in 1..Len(view) : k < l =>
                  \/ view[k].count > view[l].count
                  \/ /\ view[k].count = view[l].count
                     /\ FirstSeen(view[k].key) < FirstSeen(view[l].key)
            /\ \A p \in Performers \ Keys(view) : \A k \in 1..Len(view) :
                  \/ view[k].count > Cardinality(RowsOf(p))
                  \/ /\ view[k].count = Cardinality(RowsOf(p))
                     /\ FirstSeen(view[k].key) < FirstSeen(p)

\* C7, amended: the top-10 view holds Min(10, number of performers) different
\* performers with their album counts, the counts never increasing along the
\* view, and no performer left out has more albums than one in the view; the
\* order, and the choice, among performers of equal count is not fixed.
C7_Top10 ==
    (AlbumsReturned /\ Len(charts) >= 3) =>
        LET view == charts[2].data
        IN  /\ IsTopView(view)
            /\ charts[3].data = view
            /\ \A k, l \in 1..Len(view) : k < l => view[k].count >= view[l].count
            /\ \A p \in Performers \ Keys(view) : \A k \in 1..Len(view) :
                  view[k].count >= Cardinality(RowsOf(p))

\* Eleven performers, ten of them in the view, the last of the view with as
\* many albums as the one left out.
C7_Witness ==
    /\ AlbumsReturned
    /\ Len(charts) >= 3
    /\ Cardinality(Performers) = 11
    /\ Len(charts[2].data) = 10
    /\ \E p \in Performers \ Keys(charts[2].data) :
          Cardinality(RowsOf(p)) = charts[2].data[10].count

\* C8 as claimed: an albums answer of zero rows raises no error.
C8_EmptyAlbumsNoError ==
    (AlbumsReturned /\ Len(Bindings(query_albums)) = 0) => error = "none"

\* The rows the scatter plot drew.
Plotted == {charts[5].data[k].row : k \in 1..Len(charts[5].data)}

\* C9 as claimed: the scatter plot draws the rows of the performers of the
\* top-10 view (those that have a release year to draw) and no row of a
\* performer outside it.
C9_ScatterTop10Only ==
    (AlbumsReturned /\ Len(charts) = 5) =>
        Plotted = {i \in AlbumRowsIn :
                      /\ HasPerformer(i) /\ YearOfRow(i) # 0
                      /\ PerformerOfRow(i) \in Keys(charts[2].data)}

\* C9, amended: the scatter plot draws every albums row that has a performer
\* label and a release year, at (performer, year), whether or not its
\* performer is in the top-10 view.
C9_ScatterAllRows ==
    (AlbumsReturned /\ Len(charts) = 5) =>
        /\ Plotted = {i \in AlbumRowsIn : HasPerformer(i) /\ YearOfRow(i) # 0}
        /\ \A k \in 1..Len(charts[5].data) :
              /\ charts[5].data[k].x = PerformerOfRow(charts[5].data[k].row)
              /\ charts[5].data[k].y = YearOfRow(charts[5].data[k].row)

\* A row of a performer outside the top-10 view was drawn.
C9_Witness ==
    /\ AlbumsReturned
    /\ Len(charts) = 5
    /\ \E k \in 1..Len(charts[5].data) : charts[5].data[k].x \notin Keys(charts[2].data)

\* C10 as claimed: after the fetch the albums table keeps the columns and the
\* cells of the table Execute returned (the one print(albums_df) wrote).
C10_TableImmutable ==
    Len(stdout) = 3 =>
        /\ albums_df.columns = stdout[3].table.columns
        /\ Len(albums_df.data) = Len(stdout[3].table.data)
        /\ \A i \in 1..Len(stdout[3].table.data) : \A c \in stdout[3].table.columns :
              albums_df.data[i][c] = stdout[3].table.data[i][c]

\* C10, amended: the date parsing rewrites the publicationDate column of the
\* albums table in place (the timestamp of the date, NaT for none) and adds
\* the column release_year (the year, NaN for none); the rows, their order and
\* every other cell stay those of the table Execute returned, and the
\* aggregation and render steps change nothing more.
C10_OnlyDateColumnsChange ==
    Len(stdout) = 3 =>
        LET returned == stdout[3].table
            parsed == pc \notin {"parse_dates"}
            added == pc \notin {"parse_dates", "release_year"}
        IN  /\ Len(albums_df.data) = Len(returned.data)
            /\ albums_df.columns =
                  returned.columns \cup (IF added THEN {"release_year"} ELSE {})
            /\ \A i \in 1..Len(returned.data) :
                  /\ \A c \in returned.columns \ {"publicationDate"} :
                        albums_df.data[i][c] = returned.data[i][c]
                  /\ (~parsed /\ "publicationDate" \in returned.columns) =>
                        albums_df.data[i]["publicationDate"] =
                            returned.data[i]["publicationDate"]
                  /\ parsed =>
                        IF YearOfRow(i) = 0
                        THEN albums_df.data[i]["publicationDate"] = NaT
                        ELSE /\ albums_df.data[i]["publicationDate"].kind = "Timestamp"
                             /\ albums_df.data[i]["publicationDate"].n \div 10000 = YearOfRow(i)
                  /\ added => albums_df.data[i]["release_year"] =
                                 (IF YearOfRow(i) = 0 THEN NaN ELSE Float(YearOfRow(i)))

\* The run ended with a raw date string replaced and release_year added.
C10_Witness ==
    /\ pc = "done"
    /\ "release_year" \in albums_df.columns
    /\ \E i \in 1..Len(albums_df.data) :
          /\ stdout[3].table.data[i]["publicationDate"] = Str(Date1965b)
          /\ albums_df.data[i]["publicationDate"] = Timestamp(19651130, 0)
          /\ albums_df.data[i]["album"] = stdout[3].table.data[i]["album"]

=============================================================================
